---- MODULE Spec2Model ----
(***************************************************************************)
(* Labour-market simulation of gfbarbieri/abm-wage-discrimination:         *)
(* Market (src/models/market.py), Worker (src/models/worker.py) and Firm   *)
(* (src/models/firm.py).                                                   *)
(*                                                                         *)
(* Numbers.  The program computes with Python floats.  The model computes  *)
(* the same quantities exactly, in fixed point:                            *)
(*   - prod, wage, output, revenue, costs, profit are integers counting    *)
(*     1/Unit (Unit = 10000), so prod = 3 is 30000;                        *)
(*   - d_factor and premium are integers counting 1/Pct (Pct = 100):       *)
(*     d_factor is round(uniform, 2) in the source, premium is 0.20, 0.1   *)
(*     or 0 in the configurations and tests;                               *)
(*   - active is the share of workers in 1/Pct.                            *)
(* Every product and quotient below is exact at this resolution.           *)
(* Two floats are ordered as the exact values they stand for, except where *)
(* these are equal and the floats come from different expressions: the     *)
(* cost and the benefit of education_decision at the threshold.  There the *)
(* model computes both as binary64 floats (float_order).                   *)
(***************************************************************************)
EXTENDS Integers, Sequences, FiniteSets, TLC

\* Bounds of the model.
NWorkers == 2
MaxSteps == 2
NSeeds == 12
RunSeeds == 1

\* Fixed-point resolutions.
Unit == 10000
Pct == 100

\* The absent employer (Python None); firms are numbered from 1.
None == 0

Workers == 1..NWorkers
Firms == 1..(2 * NWorkers + 1)

VARIABLES
    p,            \* the parameter set of the run (Market.p)
    workers,      \* worker index -> the Worker's attributes
    firms,        \* firm index -> the Firm's attributes
    pc,           \* position of the run: setup, step, educ, search, finish, done
    t,            \* number of completed steps (Model.t)
    workers_sel,  \* the active workers of the current step, in sample order
    idx,          \* position in workers_sel of the next worker to act
    call          \* the last Worker/Firm method executed and its arguments

vars == <<p, workers, firms, pc, t, workers_sel, idx, call>>

----------------------------------------------------------------------------
\* Helpers.

RECURSIVE Pow(_, _)
Pow(b, e) == IF e = 0 THEN 1 ELSE b * Pow(b, e - 1)

RECURSIVE SumSeq(_)
SumSeq(s) == IF s = <<>> THEN 0 ELSE Head(s) + SumSeq(Tail(s))

RECURSIVE seq_remove(_, _)
\* list.remove(x): drops the first occurrence of x.
seq_remove(s, x) ==
    IF s = <<>> THEN <<>>
    ELSE IF Head(s) = x THEN Tail(s)
    ELSE <<Head(s)>> \o seq_remove(Tail(s), x)

InSeq(x, s) == \E i \in 1..Len(s) : s[i] = x

\* Ordered samples without replacement of k elements of S (random.sample).
Samples(S, k) ==
    {s \in [1..k -> S] : \A i, j \in 1..k : i # j => s[i] # s[j]}

\* ceil(n * share) for a share given in 1/Pct.
ceil_share(n, share) == (n * share + (Pct - 1)) \div Pct

----------------------------------------------------------------------------
\* Parameter sets (src/config/base_config.py, src/config/exp_config.py and
\* the example run of the specification), with populations of NWorkers.

\* The example run: prod_range [10,10], d_range [0,0], premium 0, active 1.0,
\* sample 1, steps 1; weighted and d_class are left open by the example.
ExampleParams ==
    {[seed |-> sd, n_workers |-> NWorkers, prod_range |-> <<10, 10>>,
      d_range |-> <<0, 0>>, premium |-> 0, active |-> 100, sample |-> 1,
      steps |-> 1, weighted |-> wt, d_class |-> dc] :
        sd \in 1..NSeeds, wt \in BOOLEAN, dc \in {0, 1}}

\* Experiment-like runs: the d_range [0,1] of the experiments, a positive
\* premium, every worker or half of the workers active, two firms or one
\* firm sampled.
ExperimentParams ==
    {[seed |-> sd, n_workers |-> NWorkers, prod_range |-> <<1, 3>>,
      d_range |-> <<0, 100>>, premium |-> 10, active |-> 100, sample |-> 2,
      steps |-> MaxSteps, weighted |-> TRUE, d_class |-> 1] : sd \in 1..NSeeds}
    \cup
    {[seed |-> sd, n_workers |-> NWorkers, prod_range |-> <<1, 3>>,
      d_range |-> <<0, 50>>, premium |-> 10, active |-> 50, sample |-> 1,
      steps |-> MaxSteps, weighted |-> FALSE, d_class |-> 0] : sd \in 1..NSeeds}

\* Parameters that no check of the code rejects: an active share above 1, a
\* sample larger than the 2 * n_workers firms other than the employer, no
\* workers at all; and, with them, the first experiment run for one step.
ConfigParams ==
    LET base(sd) == [seed |-> sd, n_workers |-> NWorkers,
                     prod_range |-> <<1, 3>>, d_range |-> <<0, 100>>,
                     premium |-> 10, active |-> 100, sample |-> 2,
                     steps |-> 1, weighted |-> TRUE, d_class |-> 1]
    IN {[base(sd) EXCEPT !.active = 150] : sd \in 1..NSeeds}
       \cup {[base(sd) EXCEPT !.sample = 2 * NWorkers + 1] : sd \in 1..NSeeds}
       \cup {[base(sd) EXCEPT !.n_workers = 0] : sd \in 1..NSeeds}
       \cup {base(sd) : sd \in 1..RunSeeds}

\* A population whose reference productivity, 3, is a productivity drawn:
\* prod_range [2,4], premium 0.10, one step with every worker active.
ThresholdParams ==
    {[seed |-> sd, n_workers |-> NWorkers, prod_range |-> <<2, 4>>,
      d_range |-> <<0, 100>>, premium |-> 10, active |-> 100, sample |-> 1,
      steps |-> 1, weighted |-> wt, d_class |-> 1] :
        sd \in 1..NSeeds, wt \in BOOLEAN}

Params == ExampleParams \cup ExperimentParams

----------------------------------------------------------------------------
\* Firm (src/models/firm.py).  Operators take and return attribute records.

\* Firm.setup: the attributes of a new firm with the drawn d_factor.
firm_setup(d, params) ==
    [d_factor |-> d, d_class |-> params.d_class,
     employees |-> <<>>, size |-> 0, size_0 |-> 0, size_1 |-> 0,
     price |-> 1, costs |-> 0, revenue |-> 0, profit |-> 0,
     output |-> 0, output_0 |-> 0, output_1 |-> 0]

\* set_size counting the whole roster as class 0.
set_size_all(f, ws) ==
    [f EXCEPT !.size = Len(f.employees),
              !.size_1 = Len(SelectSeq(f.employees, LAMBDA e : ws[e].d_class = 1)),
              !.size_0 = Len(f.employees)]

\* Firm.set_size: sizes recomputed from the roster.
set_size(f, ws) ==
    [f EXCEPT !.size = Len(f.employees),
              !.size_1 = Len(SelectSeq(f.employees, LAMBDA e : ws[e].d_class = 1)),
              !.size_0 = Len(SelectSeq(f.employees, LAMBDA e : ws[e].d_class = 0))]

\* hire without the membership test.
hire_always(f, w, ws) == set_size([f EXCEPT !.employees = Append(@, w)], ws)

\* Firm.hire: append unless already on the roster, then set_size.
hire(f, w, ws) ==
    set_size(IF InSeq(w, f.employees) THEN f
             ELSE [f EXCEPT !.employees = Append(@, w)], ws)

\* separate with the removal forgotten.
separate_keeps(f, w, ws) == set_size(f, ws)

\* Firm.separate: remove if on the roster, then set_size.
separate(f, w, ws) ==
    set_size(IF InSeq(w, f.employees)
             THEN [f EXCEPT !.employees = seq_remove(@, w)]
             ELSE f, ws)

\* produce with the output of class 1 counted in output_0 as well.
produce_total(f, ws) ==
    LET q(e) == ws[e].prod * ws[e].hrs
        out(s) == SumSeq([i \in 1..Len(s) |-> q(s[i])])
    IN [f EXCEPT !.output = out(f.employees),
                 !.output_0 = out(f.employees),
                 !.output_1 = out(SelectSeq(f.employees, LAMBDA e : ws[e].d_class = 1))]

\* Firm.produce: output = sum(prod * hrs), in total and by class.
produce(f, ws) ==
    LET q(e) == ws[e].prod * ws[e].hrs
        out(s) == SumSeq([i \in 1..Len(s) |-> q(s[i])])
    IN [f EXCEPT !.output = out(f.employees),
                 !.output_0 = out(SelectSeq(f.employees, LAMBDA e : ws[e].d_class = 0)),
                 !.output_1 = out(SelectSeq(f.employees, LAMBDA e : ws[e].d_class = 1))]

\* calc_profit with the costs not multiplied by the hours.
calc_profit_hourly(f, ws) ==
    LET rev == f.output * f.price
        cst == SumSeq([i \in 1..Len(f.employees) |-> ws[f.employees[i]].wage])
    IN [f EXCEPT !.revenue = rev, !.costs = cst, !.profit = rev - cst]

\* Firm.calc_profit: revenue, costs and profit from the current output.
calc_profit(f, ws) ==
    LET rev == f.output * f.price
        cst == SumSeq([i \in 1..Len(f.employees) |->
                          ws[f.employees[i]].wage * ws[f.employees[i]].hrs])
    IN [f EXCEPT !.revenue = rev, !.costs = cst, !.profit = rev - cst]

\* calc_wage with the discount on the other class.
calc_wage_other(f, w) ==
    LET wage == f.price * w.prod
    IN IF w.d_class # f.d_class
       THEN (wage * (Pct - f.d_factor)) \div Pct
       ELSE wage

\* Firm.calc_wage: price * prod, times (1 - d_factor) for the firm's d_class.
calc_wage(f, w) ==
    LET wage == f.price * w.prod
    IN IF w.d_class = f.d_class
       THEN (wage * (Pct - f.d_factor)) \div Pct
       ELSE wage

----------------------------------------------------------------------------
\* Worker (src/models/worker.py).

\* Worker.setup: the attributes of a new worker with the drawn class and
\* productivity.  switched is the attribute firm_selection creates; FALSE
\* stands for "not set".
worker_setup(c, pr, params) ==
    [d_class |-> c, prod |-> pr * Unit,
     avg_prod2 |-> params.prod_range[1] + params.prod_range[2],
     hrs |-> 8, educ |-> FALSE, wage |-> 0,
     employer |-> None, employer_id |-> None, employer_size |-> None,
     search |-> FALSE, switch |-> FALSE, switched |-> FALSE]

\* Worker.update_employer: employer, employer_id and employer_size from the
\* firm as it is at the time of the call (fid = None clears them).
update_employer(w, fid, fs) ==
    IF fid # None
    THEN [w EXCEPT !.employer = fid, !.employer_id = fid,
                   !.employer_size = fs[fid].size]
    ELSE [w EXCEPT !.employer = None, !.employer_id = None,
                   !.employer_size = None]

\* switch_employer with the final update_employer forgotten.
switch_employer_stale(ws, fs, w, fid) ==
    LET fs1 == IF ws[w].employer # None
               THEN [fs EXCEPT ![ws[w].employer] = separate(@, w, ws)]
               ELSE fs
    IN [workers |-> ws, firms |-> [fs1 EXCEPT ![fid] = hire(@, w, ws)]]

\* Worker.switch_employer: separate from the current employer if any, hire
\* at the new firm, update_employer.  Yields the new workers and firms.
switch_employer(ws, fs, w, fid) ==
    LET fs1 == IF ws[w].employer # None
               THEN [fs EXCEPT ![ws[w].employer] = separate(@, w, ws)]
               ELSE fs
        fs2 == [fs1 EXCEPT ![fid] = hire(@, w, ws)]
    IN [workers |-> [ws EXCEPT ![w] = update_employer(@, fid, fs2)],
        firms |-> fs2]

\* calc_avg_d that ignores weighted.
calc_avg_d_unweighted(fs, weighted) ==
    LET n == Len(fs)
        active(f) == fs[f].size > 0
        n_active == Len(SelectSeq([f \in 1..n |-> f], active))
        d_sum == SumSeq([f \in 1..n |-> IF active(f) THEN fs[f].d_factor ELSE 0])
    IN IF n_active = 0 THEN [nan |-> TRUE, num |-> 0, den |-> 1]
       ELSE [nan |-> FALSE, num |-> d_sum, den |-> n_active]

\* Worker.calc_avg_d: the average d_factor over the firms with size > 0, as
\* the fraction num / (Pct * den).  Weighted: sum(d_factor * size) / sum(size),
\* which is 0 for no active firm (both sums are empty).  Unweighted:
\* numpy.mean of the d_factors, which is nan for no active firm.
calc_avg_d(fs, weighted) ==
    LET n == Len(fs)
        active(f) == fs[f].size > 0
        n_active == Len(SelectSeq([f \in 1..n |-> f], active))
        d_sum == SumSeq([f \in 1..n |-> IF active(f) THEN fs[f].d_factor ELSE 0])
        size == SumSeq([f \in 1..n |-> IF active(f) THEN fs[f].size ELSE 0])
        d_size == SumSeq([f \in 1..n |->
                            IF active(f) THEN fs[f].d_factor * fs[f].size ELSE 0])
    IN IF weighted
       THEN IF n_active = 0 THEN [nan |-> FALSE, num |-> 0, den |-> 1]
            ELSE [nan |-> FALSE, num |-> d_size, den |-> size]
       ELSE IF n_active = 0 THEN [nan |-> TRUE, num |-> 0, den |-> 1]
            ELSE [nan |-> FALSE, num |-> d_sum, den |-> n_active]

\* get_education that keeps the old wage.
get_education_stale(w, fs, premium) ==
    [w EXCEPT !.educ = TRUE, !.prod = (@ * (Pct + premium)) \div Pct]

\* get_education with the premium subtracted.
get_education_cut(w, fs, premium) ==
    LET w1 == [w EXCEPT !.educ = TRUE,
                        !.prod = (@ * (Pct - premium)) \div Pct]
    IN IF w1.employer # None
       THEN [w1 EXCEPT !.wage = calc_wage(fs[w1.employer], w1)]
       ELSE w1

\* Worker.get_education: educ, prod * (1 + premium), and the wage recomputed
\* by the current employer if there is one.
get_education(w, fs, premium) ==
    LET w1 == [w EXCEPT !.educ = TRUE,
                        !.prod = (@ * (Pct + premium)) \div Pct]
    IN IF w1.employer # None
       THEN [w1 EXCEPT !.wage = calc_wage(fs[w1.employer], w1)]
       ELSE w1

\* Python floats (IEEE 754 binary64, round to nearest, ties to even) as far
\* as education_decision needs them.  A natural number is the sequence of its
\* binary digits, most significant first; a float is [m, e] with m a number
\* of Mant digits and value m * 2^e, or Zero.  Products and quotients are
\* computed on limbs of Limb binary digits.
Mant == 53
Guard == 12
Limb == 15

Zero == [m |-> <<>>, e |-> 0]

Zeros(n) == [i \in 1..n |-> 0]

RECURSIVE Bits(_)
Bits(n) == IF n = 0 THEN <<>> ELSE Append(Bits(n \div 2), n % 2)

\* b without its leading zeros.
Strip(b) ==
    LET ones == {i \in 1..Len(b) : b[i] = 1}
    IN IF ones = {} THEN <<>>
       ELSE SubSeq(b, CHOOSE i \in ones : \A j \in ones : i <= j, Len(b))

\* The limbs of b, most significant first, and back.
ToLimbs(b) ==
    LET n == (Len(b) + Limb - 1) \div Limb
        x == Zeros(n * Limb - Len(b)) \o b
    IN [j \in 1..n |->
           SumSeq([i \in 1..Limb |-> x[(j - 1) * Limb + i] * Pow(2, Limb - i)])]

FromLimbs(x) ==
    [i \in 1..(Limb * Len(x)) |->
        (x[((i - 1) \div Limb) + 1] \div Pow(2, Limb - 1 - ((i - 1) % Limb))) % 2]

\* x * k + carry on limbs, for a small k.
RECURSIVE MulLimbs(_, _, _)
MulLimbs(x, k, carry) ==
    IF x = <<>> THEN (IF carry = 0 THEN <<>> ELSE <<carry>>)
    ELSE LET v == x[Len(x)] * k + carry
         IN Append(MulLimbs(SubSeq(x, 1, Len(x) - 1), k, v \div Pow(2, Limb)),
                   v % Pow(2, Limb))

\* Quotient and remainder of x by a small k, on limbs.
RECURSIVE DivLimbs(_, _, _, _)
DivLimbs(x, k, rem, q) ==
    IF x = <<>> THEN [q |-> q, r |-> rem]
    ELSE LET cur == rem * Pow(2, Limb) + Head(x)
         IN DivLimbs(Tail(x), k, cur % k, Append(q, cur \div k))

MulSmall(b, k) == FromLimbs(MulLimbs(ToLimbs(b), k, 0))

DivSmall(b, k) ==
    LET d == DivLimbs(ToLimbs(b), k, 0, <<>>)
    IN [q |-> FromLimbs(d.q), r |-> d.r]

\* b + 1.
Inc(b) ==
    LET zeros == {i \in 1..Len(b) : b[i] = 0}
        z == CHOOSE i \in zeros : \A j \in zeros : i >= j
    IN IF zeros = {} THEN <<1>> \o Zeros(Len(b))
       ELSE [i \in 1..Len(b) |-> IF i < z THEN b[i] ELSE IF i = z THEN 1 ELSE 0]

\* The float nearest to b * 2^e (plus a fraction of 2^e when sticky).
fl(b, e, sticky) ==
    LET x == Strip(b)
        s == Len(x) - Mant
    IN IF x = <<>> THEN Zero
       ELSE IF s <= 0 THEN [m |-> x \o Zeros(-s), e |-> e + s]
       ELSE LET q == SubSeq(x, 1, Mant)
                low == \E i \in (Mant + 2)..Len(x) : x[i] = 1
                up == /\ x[Mant + 1] = 1
                      /\ (sticky \/ low \/ q[Mant] = 1)
                r == IF up THEN Inc(q) ELSE q
            IN IF Len(r) > Mant THEN [m |-> SubSeq(r, 1, Mant), e |-> e + s + 1]
               ELSE [m |-> r, e |-> e + s]

\* float(n) * 2^e for a natural number n, and x * that.
float_mul(x, n, e) == fl(MulSmall(x.m, n), x.e + e, FALSE)

\* x / float(n) for a natural number 0 < n <= 2^(Guard - 1).
float_div(x, n) ==
    LET d == DivSmall(x.m \o Zeros(Guard), n)
    IN fl(d.q, x.e - Guard, d.r # 0)

\* The order of two floats >= 0: 1 for x > y, 0 for x == y, -1 for x < y.
float_cmp(x, y) ==
    LET D == {i \in 1..Mant : x.m[i] # y.m[i]}
        i == CHOOSE j \in D : \A k \in D : j <= k
    IN IF x = y THEN 0
       ELSE IF x = Zero THEN -1
       ELSE IF y = Zero THEN 1
       ELSE IF x.e # y.e THEN (IF x.e > y.e THEN 1 ELSE -1)
       ELSE IF x.m[i] > y.m[i] THEN 1 ELSE -1

\* The order of benefit and cost as education_decision computes them without
\* a discount: cost = (avg_prod**2 * premium) / prod, benefit = prod * premium,
\* for avg_prod = A / 2, an integer prod and the float premium / Pct.
float_terms_order(A, prod, premium) ==
    LET pm == float_div(fl(Bits(premium), 0, FALSE), Pct)
        cost == float_div(float_mul(pm, A * A, -2), prod)
        benefit == float_mul(pm, prod, 0)
    IN float_cmp(benefit, cost)

\* That order for every productivity and premium of the parameter sets.
FloatOrders ==
    [x \in UNION {{<<q.prod_range[1] + q.prod_range[2], pr, q.premium>> :
                      pr \in q.prod_range[1]..q.prod_range[2]} :
                  q \in Params \cup ThresholdParams \cup ConfigParams}
        |-> float_terms_order(x[1], x[2], x[3])]

float_order(w, premium) == FloatOrders[<<w.avg_prod2, w.prod \div Unit, premium>>]

\* The cost and the benefit of education_decision, both multiplied by the
\* same positive number.  With prod = P / Pct, avg_prod = A / 2,
\* premium = m / Pct and d_avg = num / (Pct * den):
\*     cost    = avg_prod^2 * premium / prod     = A^2 * m / (4 * P)
\*     benefit = prod * premium [* (1 - d_avg)]  = P * m * (Pct*den - num) / (Pct^3 * den)
\* and both are multiplied by 4 * P * Pct^3 * den (den = 1 and num = 0 when
\* the benefit is not discounted).  The benefit is nan when d_avg is nan.
education_terms(w, fs, premium, weighted) ==
    LET P == w.prod \div (Unit \div Pct)
        A == w.avg_prod2
        d_avg == IF w.d_class = 1 THEN calc_avg_d(fs, weighted)
                 ELSE [nan |-> FALSE, num |-> 0, den |-> 1]
    IN [nan |-> d_avg.nan,
        cost |-> premium * A * A * Pct * Pct * Pct * d_avg.den,
        benefit |-> premium * 4 * P * P * (Pct * d_avg.den - d_avg.num)]

\* The outcome of the two comparisons of education_decision: 1 for
\* benefit > cost, 0 for benefit == cost, -1 for neither (every comparison
\* with nan is false).  The two floats are ordered as the exact values unless
\* these are equal; then the rounding of the two expressions decides.  (A
\* benefit reduced by a positive discount equals the cost at no productivity
\* of the ranges modelled unless the premium is 0, where both floats are 0.0.)
education_order(w, fs, premium, weighted) ==
    LET e == education_terms(w, fs, premium, weighted)
    IN IF e.nan THEN -1
       ELSE IF e.benefit > e.cost THEN 1
       ELSE IF e.benefit < e.cost THEN -1
       ELSE float_order(w, premium)

\* education_decision that never educates an indifferent worker.
education_decision_strict(w, fs, premium, weighted, coin) ==
    LET order == education_order(w, fs, premium, weighted)
    IN IF order = 1 THEN get_education(w, fs, premium)
       ELSE w

\* Worker.education_decision: educate when benefit > cost, on the coin when
\* benefit == cost, otherwise nothing.
education_decision(w, fs, premium, weighted, coin) ==
    LET order == education_order(w, fs, premium, weighted)
    IN IF order = 1 THEN get_education(w, fs, premium)
       ELSE IF order = 0
            THEN IF coin THEN get_education(w, fs, premium) ELSE w
            ELSE w

\* Worker.select_firms: the ordered samples of n distinct firms whose id is
\* not the worker's employer_id.
select_firms(w, fs, n) ==
    Samples({f \in DOMAIN fs : f # w.employer_id}, n)

\* rank_firms returning the highest wage with the last firm of the sample.
rank_firms_last(w, fs, sample) ==
    LET wages == [i \in 1..Len(sample) |-> calc_wage(fs[sample[i]], w)]
        max_idx == CHOOSE i \in 1..Len(sample) :
                      \A j \in 1..Len(sample) : wages[j] <= wages[i]
    IN [firm |-> sample[Len(sample)], wage |-> wages[max_idx]]

\* rank_firms returning the last of the firms with the highest offer.
rank_firms_tie_last(w, fs, sample) ==
    LET wages == [i \in 1..Len(sample) |-> calc_wage(fs[sample[i]], w)]
        max_idx == CHOOSE i \in 1..Len(sample) :
                      /\ \A j \in 1..Len(sample) : wages[j] <= wages[i]
                      /\ \A j \in (i + 1)..Len(sample) : wages[j] < wages[i]
    IN [firm |-> sample[max_idx], wage |-> wages[max_idx]]

\* Worker.rank_firms on a sample: the first firm of the sample with the
\* highest calc_wage, and that wage.
rank_firms(w, fs, sample) ==
    LET wages == [i \in 1..Len(sample) |-> calc_wage(fs[sample[i]], w)]
        max_idx == CHOOSE i \in 1..Len(sample) :
                      /\ \A j \in 1..Len(sample) : wages[j] <= wages[i]
                      /\ \A j \in 1..(i - 1) : wages[j] < wages[i]
    IN [firm |-> sample[max_idx], wage |-> wages[max_idx]]

\* firm_selection that takes the best offer whatever the wage.
firm_selection_any(ws, fs, w, sample) ==
    LET best == rank_firms(ws[w], fs, sample)
        ws1 == [ws EXCEPT ![w].search = TRUE]
        r == switch_employer([ws1 EXCEPT ![w].switched = TRUE,
                                         ![w].wage = best.wage],
                             fs, w, best.firm)
    IN [workers |-> r.workers, firms |-> r.firms, switches |-> TRUE]

\* firm_selection that also takes an offer equal to the wage.
firm_selection_ties(ws, fs, w, sample) ==
    LET best == rank_firms(ws[w], fs, sample)
        ws1 == [ws EXCEPT ![w].search = TRUE]
    IN IF best.wage >= ws1[w].wage
       THEN LET r == switch_employer([ws1 EXCEPT ![w].switched = TRUE,
                                                 ![w].wage = best.wage],
                                     fs, w, best.firm)
            IN [workers |-> r.workers, firms |-> r.firms, switches |-> TRUE]
       ELSE [workers |-> ws1, firms |-> fs, switches |-> FALSE]

\* Worker.firm_selection on a sample: search, and when the best offer exceeds
\* the wage: switched, the wage, switch_employer.  switches tells whether
\* switch_employer ran.
firm_selection(ws, fs, w, sample) ==
    LET best == rank_firms(ws[w], fs, sample)
        ws1 == [ws EXCEPT ![w].search = TRUE]
    IN IF best.wage > ws1[w].wage
       THEN LET r == switch_employer([ws1 EXCEPT ![w].switched = TRUE,
                                                 ![w].wage = best.wage],
                                     fs, w, best.firm)
            IN [workers |-> r.workers, firms |-> r.firms, switches |-> TRUE]
       ELSE [workers |-> ws1, firms |-> fs, switches |-> FALSE]

----------------------------------------------------------------------------
\* The values the draws of Worker.setup and Firm.setup range over:
\* random.choice([1, 0]), random.randint(lo, hi) and round(uniform(lo, hi), 2),
\* the last one at the ends and the middle of the range.
ClassDraws == <<1, 0>>
ProdDraws(params) ==
    [i \in 1..(params.prod_range[2] - params.prod_range[1] + 1) |->
        params.prod_range[1] + i - 1]
DFactorDraws(params) ==
    IF params.d_range[1] = params.d_range[2] THEN <<params.d_range[1]>>
    ELSE <<params.d_range[1],
           (params.d_range[1] + params.d_range[2]) \div 2,
           params.d_range[2]>>

\* The random source of a run is seeded by p.seed, so the draws of setup are
\* a function of the seed.  All outcomes of the draws are numbered (classes,
\* then productivities, then d_factors, as digits of one number) and the
\* seeds are spread over them by a multiplication that is a bijection on the
\* numbering (7919 is prime to every count of outcomes below).
draws(params) ==
    LET n == params.n_workers
        nc == Len(ClassDraws)
        np == Len(ProdDraws(params))
        nd == Len(DFactorDraws(params))
        count == Pow(nc, n) * Pow(np, n) * Pow(nd, 2 * n + 1)
        code == (params.seed * 7919 + 13) % count
        digit(weight, radix) == ((code \div weight) % radix) + 1
    IN [d_class |-> [i \in 1..n |-> ClassDraws[digit(Pow(nc, i - 1), nc)]],
        prod |-> [i \in 1..n |->
                     ProdDraws(params)[digit(Pow(nc, n) * Pow(np, i - 1), np)]],
        d_factor |-> [f \in 1..(2 * n + 1) |->
                         DFactorDraws(params)[digit(Pow(nc, n) * Pow(np, n)
                                                     * Pow(nd, f - 1), nd)]]]

\* The value of call before any method has run.  op is the method; worker
\* and firm are the agents it ran on; wage is the wage it returned or was
\* offered; employer, old_wage, employees and size are the worker's employer
\* and wage and the firm's roster and size when it started; coin is the
\* tie-break draw; switches tells whether switch_employer ran; weighted and
\* avg are the argument and the result of calc_avg_d; n and sample are the
\* argument of rank_firms and the firms select_firms drew for it.
NoCall == [op |-> "none", worker |-> 0, firm |-> 0, wage |-> 0,
           employer |-> 0, old_wage |-> 0, employees |-> <<>>, size |-> 0,
           coin |-> FALSE, switches |-> FALSE, weighted |-> FALSE,
           avg |-> [nan |-> FALSE, num |-> 0, den |-> 1],
           n |-> 0, sample |-> <<>>]

----------------------------------------------------------------------------
\* Market (src/models/market.py).

RECURSIVE setup_loop_slip(_, _, _, _)
\* The loop of setup hiring worker i at the firm after firm i.
setup_loop_slip(i, n, ws, fs) ==
    IF i > n THEN [workers |-> ws, firms |-> fs]
    ELSE LET ws1 == [ws EXCEPT ![i] = update_employer(@, i, fs)]
             fs1 == [fs EXCEPT ![i + 1] = hire(@, i, ws1)]
             ws2 == [ws1 EXCEPT ![i].wage = calc_wage(fs1[i], ws1[i])]
         IN setup_loop_slip(i + 1, n, ws2, fs1)

RECURSIVE setup_loop(_, _, _, _)
\* The loop of Market.setup from worker i on: update_employer, hire, wage.
setup_loop(i, n, ws, fs) ==
    IF i > n THEN [workers |-> ws, firms |-> fs]
    ELSE LET ws1 == [ws EXCEPT ![i] = update_employer(@, i, fs)]
             fs1 == [fs EXCEPT ![i] = hire(@, i, ws1)]
             ws2 == [ws1 EXCEPT ![i].wage = calc_wage(fs1[i], ws1[i])]
         IN setup_loop(i + 1, n, ws2, fs1)

Init ==
    /\ p \in Params
    /\ workers = <<>>
    /\ firms = <<>>
    /\ pc = "setup"
    /\ t = 0
    /\ workers_sel = <<>>
    /\ idx = 0
    /\ call = NoCall

\* Market.setup: the agents are created with their draws, then worker i
\* joins firm i.
Setup ==
    /\ pc = "setup"
    /\ LET d == draws(p)
           ws == [i \in 1..p.n_workers |-> worker_setup(d.d_class[i], d.prod[i], p)]
           fs == [f \in 1..(2 * p.n_workers + 1) |-> firm_setup(d.d_factor[f], p)]
           r == setup_loop(1, p.n_workers, ws, fs)
       IN /\ workers' = r.workers
          /\ firms' = r.firms
    /\ pc' = "step"
    /\ call' = [NoCall EXCEPT !.op = "setup"]
    /\ UNCHANGED <<p, t, workers_sel, idx>>

\* The selection drawn with replacement.
StepSelect_replace ==
    /\ pc = "step"
    /\ t < p.steps
    /\ \E sel \in [1..ceil_share(p.n_workers, p.active) -> DOMAIN workers] :
          /\ workers_sel' = sel
          /\ pc' = IF Len(sel) = 0 THEN "finish" ELSE "educ"
    /\ workers' = [w \in DOMAIN workers |->
                      [workers[w] EXCEPT !.search = FALSE, !.switch = FALSE]]
    /\ idx' = 1
    /\ call' = [NoCall EXCEPT !.op = "select"]
    /\ UNCHANGED <<p, firms, t>>

\* Market.step, lines 78-88: the flags are reset and the active workers drawn.
StepSelect ==
    /\ pc = "step"
    /\ t < p.steps
    /\ \E sel \in Samples(DOMAIN workers, ceil_share(p.n_workers, p.active)) :
          /\ workers_sel' = sel
          /\ pc' = IF Len(sel) = 0 THEN "finish" ELSE "educ"
    /\ workers' = [w \in DOMAIN workers |->
                      [workers[w] EXCEPT !.search = FALSE, !.switch = FALSE]]
    /\ idx' = 1
    /\ call' = [NoCall EXCEPT !.op = "select"]
    /\ UNCHANGED <<p, firms, t>>

\* The education loop that indexes the population instead of the selection.
StepEducation_all ==
    /\ pc = "educ"
    /\ LET w == idx
       IN \E coin \in BOOLEAN :
             /\ workers' = IF workers[w].educ = FALSE
                           THEN [workers EXCEPT ![w] =
                                    education_decision(@, firms, p.premium,
                                                       p.weighted, coin)]
                           ELSE workers
             /\ call' = [NoCall EXCEPT
                            !.op = IF workers[w].educ = FALSE
                                   THEN "education_decision" ELSE "educated",
                            !.worker = w, !.coin = coin]
    /\ IF idx < Len(workers_sel)
       THEN idx' = idx + 1 /\ pc' = "educ"
       ELSE idx' = 1 /\ pc' = "search"
    /\ UNCHANGED <<p, firms, t, workers_sel>>

\* The education loop without the test of educ.
StepEducation_again ==
    /\ pc = "educ"
    /\ LET w == workers_sel[idx]
       IN \E coin \in BOOLEAN :
             /\ workers' = [workers EXCEPT ![w] =
                               education_decision(@, firms, p.premium,
                                                  p.weighted, coin)]
             /\ call' = [NoCall EXCEPT
                            !.op = IF workers[w].educ = FALSE
                                   THEN "education_decision" ELSE "educated",
                            !.worker = w, !.coin = coin]
    /\ IF idx < Len(workers_sel)
       THEN idx' = idx + 1 /\ pc' = "educ"
       ELSE idx' = 1 /\ pc' = "search"
    /\ UNCHANGED <<p, firms, t, workers_sel>>

\* A step in which each active worker searches right after its education
\* decision.
StepEducation_searching ==
    /\ pc = "educ"
    /\ LET w == workers_sel[idx]
       IN \E coin \in BOOLEAN :
             \E sample \in select_firms(workers[w], firms, p.sample) :
                LET ws == IF workers[w].educ = FALSE
                          THEN [workers EXCEPT ![w] =
                                   education_decision(@, firms, p.premium,
                                                      p.weighted, coin)]
                          ELSE workers
                    r == firm_selection(ws, firms, w, sample)
                IN /\ workers' = r.workers
                   /\ firms' = r.firms
                   /\ call' = [NoCall EXCEPT
                                  !.op = IF workers[w].educ = FALSE
                                         THEN "education_decision"
                                         ELSE "educated",
                                  !.worker = w, !.coin = coin]
    /\ IF idx < Len(workers_sel)
       THEN idx' = idx + 1 /\ pc' = "educ"
       ELSE idx' = 1 /\ pc' = "search"
    /\ UNCHANGED <<p, t, workers_sel>>

\* Market.step, lines 90-96: the next active worker decides on education,
\* unless already educated.
StepEducation ==
    /\ pc = "educ"
    /\ LET w == workers_sel[idx]
       IN \E coin \in BOOLEAN :
             /\ workers' = IF workers[w].educ = FALSE
                           THEN [workers EXCEPT ![w] =
                                    education_decision(@, firms, p.premium,
                                                       p.weighted, coin)]
                           ELSE workers
             /\ call' = [NoCall EXCEPT
                            !.op = IF workers[w].educ = FALSE
                                   THEN "education_decision" ELSE "educated",
                            !.worker = w, !.coin = coin]
    /\ IF idx < Len(workers_sel)
       THEN idx' = idx + 1 /\ pc' = "educ"
       ELSE idx' = 1 /\ pc' = "search"
    /\ UNCHANGED <<p, firms, t, workers_sel>>

\* Market.step, line 99: the next active worker runs firm_selection.
StepSearch ==
    /\ pc = "search"
    /\ LET w == workers_sel[idx]
       IN \E sample \in select_firms(workers[w], firms, p.sample) :
             LET best == rank_firms(workers[w], firms, sample)
                 r == firm_selection(workers, firms, w, sample)
             IN /\ workers' = r.workers
                /\ firms' = r.firms
                /\ call' = [NoCall EXCEPT
                               !.op = "firm_selection", !.worker = w,
                               !.firm = best.firm, !.wage = best.wage,
                               !.employer = workers[w].employer,
                               !.old_wage = workers[w].wage,
                               !.switches = r.switches]
    /\ IF idx < Len(workers_sel)
       THEN idx' = idx + 1 /\ pc' = "search"
       ELSE idx' = 1 /\ pc' = "finish"
    /\ UNCHANGED <<p, t, workers_sel>>

\* The end of a step that refreshes employer_size for the active workers
\* only.
StepFinish_active ==
    /\ pc = "finish"
    /\ workers' = [w \in DOMAIN workers |->
                      IF InSeq(w, workers_sel)
                      THEN [workers[w] EXCEPT
                               !.employer_size = firms[workers[w].employer].size]
                      ELSE workers[w]]
    /\ firms' = [f \in DOMAIN firms |->
                    calc_profit(produce(firms[f], workers'), workers')]
    /\ t' = t + 1
    /\ pc' = IF t + 1 >= p.steps THEN "done" ELSE "step"
    /\ call' = [NoCall EXCEPT !.op = "finish"]
    /\ UNCHANGED <<p, workers_sel, idx>>

\* The end of a step that lets the run go on for one more step.
StepFinish_late ==
    /\ pc = "finish"
    /\ workers' = [w \in DOMAIN workers |->
                      [workers[w] EXCEPT
                          !.employer_size = firms[workers[w].employer].size]]
    /\ firms' = [f \in DOMAIN firms |->
                    calc_profit(produce(firms[f], workers'), workers')]
    /\ t' = t + 1
    /\ pc' = IF t + 1 > p.steps THEN "done" ELSE "step"
    /\ call' = [NoCall EXCEPT !.op = "finish"]
    /\ UNCHANGED <<p, workers_sel, idx>>

\* Market.step, lines 101-106, and the end of the step in Model.run: every
\* worker's employer_size is refreshed, every firm produces and computes its
\* profit, and the run stops after p.steps steps.
StepFinish ==
    /\ pc = "finish"
    /\ workers' = [w \in DOMAIN workers |->
                      [workers[w] EXCEPT
                          !.employer_size = firms[workers[w].employer].size]]
    /\ firms' = [f \in DOMAIN firms |->
                    calc_profit(produce(firms[f], workers'), workers')]
    /\ t' = t + 1
    /\ pc' = IF t + 1 >= p.steps THEN "done" ELSE "step"
    /\ call' = [NoCall EXCEPT !.op = "finish"]
    /\ UNCHANGED <<p, workers_sel, idx>>

Next == Setup \/ StepSelect \/ StepEducation \/ StepSearch \/ StepFinish

Spec == Init /\ [][Next]_vars

\* The runs of the populations of ThresholdParams.
InitThreshold ==
    /\ p \in ThresholdParams
    /\ workers = <<>>
    /\ firms = <<>>
    /\ pc = "setup"
    /\ t = 0
    /\ workers_sel = <<>>
    /\ idx = 0
    /\ call = NoCall

SpecThreshold == InitThreshold /\ [][Next]_vars

\* Market.step, lines 79-88, when ceil(n_workers * active) exceeds the number
\* of workers: the flags are reset, then random.sample raises ValueError.
StepSelectRaises ==
    /\ pc = "step"
    /\ t < p.steps
    /\ ceil_share(p.n_workers, p.active) > Len(workers)
    /\ workers' = [w \in DOMAIN workers |->
                      [workers[w] EXCEPT !.search = FALSE, !.switch = FALSE]]
    /\ pc' = "error"
    /\ call' = [NoCall EXCEPT !.op = "ValueError"]
    /\ UNCHANGED <<p, firms, t, workers_sel, idx>>

\* Market.step, line 99, when the sample exceeds the number of firms other
\* than the employer: firm_selection sets search, then the random.sample of
\* select_firms raises ValueError.
StepSearchRaises ==
    /\ pc = "search"
    /\ LET w == workers_sel[idx]
       IN /\ p.sample > Cardinality({f \in DOMAIN firms :
                                        f # workers[w].employer_id})
          /\ workers' = [workers EXCEPT ![w].search = TRUE]
          /\ call' = [NoCall EXCEPT !.op = "ValueError", !.worker = w]
    /\ pc' = "error"
    /\ UNCHANGED <<p, firms, t, workers_sel, idx>>

\* The runs of the parameters of ConfigParams, with the exceptions a step
\* can raise.
InitConfig ==
    /\ p \in ConfigParams
    /\ workers = <<>>
    /\ firms = <<>>
    /\ pc = "setup"
    /\ t = 0
    /\ workers_sel = <<>>
    /\ idx = 0
    /\ call = NoCall

NextConfig == Next \/ StepSelectRaises \/ StepSearchRaises

SpecConfig == InitConfig /\ [][NextConfig]_vars

\* The run as main.run_experiment executes it: model.run() keeps stepping
\* while the model is running, so a step that can be taken is taken.
InitRun == Init /\ p.seed \in 1..RunSeeds

SpecRun == InitRun /\ [][Next]_vars /\ WF_vars(Next)

----------------------------------------------------------------------------
\* Direct calls of the Firm and Worker methods (tests/test_firm.py,
\* tests/test_worker.py): the agents exist with their draws, nothing is
\* employed, and the methods are called in any order.  hire and separate are
\* called on the firm under test, the first firm.

InitCalls ==
    /\ p \in ExperimentParams
    /\ LET d == draws(p)
       IN /\ workers = [i \in 1..p.n_workers |->
                           worker_setup(d.d_class[i], d.prod[i], p)]
          /\ firms = [f \in 1..(2 * p.n_workers + 1) |->
                         firm_setup(d.d_factor[f], p)]
    /\ pc = "calls"
    /\ t = 0
    /\ workers_sel = <<>>
    /\ idx = 0
    /\ call = NoCall

\* firm.hire(worker), as in test_hire.
HireCall ==
    \E w \in DOMAIN workers :
        /\ firms' = [firms EXCEPT ![1] = hire(@, w, workers)]
        /\ call' = [NoCall EXCEPT !.op = "hire", !.firm = 1, !.worker = w,
                                  !.employees = firms[1].employees,
                                  !.size = firms[1].size]
        /\ UNCHANGED <<p, workers, pc, t, workers_sel, idx>>

\* firm.separate(worker), as in test_separate.
SeparateCall ==
    \E w \in DOMAIN workers :
        /\ firms' = [firms EXCEPT ![1] = separate(@, w, workers)]
        /\ call' = [NoCall EXCEPT !.op = "separate", !.firm = 1, !.worker = w,
                                  !.employees = firms[1].employees,
                                  !.size = firms[1].size]
        /\ UNCHANGED <<p, workers, pc, t, workers_sel, idx>>

\* firm.calc_wage(worker), as in test_calc_wage.
CalcWageCall ==
    \E f \in DOMAIN firms, w \in DOMAIN workers :
        /\ call' = [NoCall EXCEPT !.op = "calc_wage", !.firm = f, !.worker = w,
                                  !.wage = calc_wage(firms[f], workers[w])]
        /\ UNCHANGED <<p, workers, firms, pc, t, workers_sel, idx>>

\* worker.get_education(premium), as in test_get_education.
GetEducationCall ==
    \E w \in DOMAIN workers :
        /\ workers[w].educ = FALSE
        /\ workers' = [workers EXCEPT ![w] = get_education(@, firms, p.premium)]
        /\ call' = [NoCall EXCEPT !.op = "get_education", !.worker = w]
        /\ UNCHANGED <<p, firms, pc, t, workers_sel, idx>>

\* worker.calc_avg_d(weighted), as in test_calc_avg_d.
CalcAvgDCall ==
    \E wt \in BOOLEAN :
        /\ call' = [NoCall EXCEPT !.op = "calc_avg_d", !.weighted = wt,
                                  !.avg = calc_avg_d(firms, wt)]
        /\ UNCHANGED <<p, workers, firms, pc, t, workers_sel, idx>>

NextCalls ==
    HireCall \/ SeparateCall \/ CalcWageCall \/ GetEducationCall \/ CalcAvgDCall

SpecCalls == InitCalls /\ [][NextCalls]_vars

----------------------------------------------------------------------------
\* calc_avg_d over two firms of different sizes, as in test_calc_avg_d: the
\* agents exist with their draws, workers are hired by the first two firms
\* in any order, and calc_avg_d is called.

\* firm.hire(worker), on the first or the second firm.
HireEitherCall ==
    \E f \in 1..2, w \in DOMAIN workers :
        /\ firms' = [firms EXCEPT ![f] = hire(@, w, workers)]
        /\ call' = [NoCall EXCEPT !.op = "hire", !.firm = f, !.worker = w,
                                  !.employees = firms[f].employees,
                                  !.size = firms[f].size]
        /\ UNCHANGED <<p, workers, pc, t, workers_sel, idx>>

NextAvg == HireEitherCall \/ CalcAvgDCall

SpecAvg == InitCalls /\ [][NextAvg]_vars

----------------------------------------------------------------------------
\* Direct calls of the search methods of a worker on the market as
\* Market.setup leaves it and as the searches change it.

InitSearch ==
    /\ p \in ExperimentParams
    /\ p.seed \in 1..RunSeeds
    /\ workers = <<>>
    /\ firms = <<>>
    /\ pc = "setup"
    /\ t = 0
    /\ workers_sel = <<>>
    /\ idx = 0
    /\ call = NoCall

\* worker.rank_firms(n): select_firms draws the sample, rank_firms ranks it.
RankFirmsCall ==
    /\ pc = "step"
    /\ \E w \in DOMAIN workers, n \in 1..p.sample :
          \E sample \in select_firms(workers[w], firms, n) :
             LET best == rank_firms(workers[w], firms, sample)
             IN call' = [NoCall EXCEPT
                            !.op = "rank_firms", !.worker = w, !.n = n,
                            !.sample = sample, !.firm = best.firm,
                            !.wage = best.wage]
    /\ UNCHANGED <<p, workers, firms, pc, t, workers_sel, idx>>

\* worker.firm_selection(n), as in test_firm_selection.
FirmSelectionCall ==
    /\ pc = "step"
    /\ \E w \in DOMAIN workers :
          \E sample \in select_firms(workers[w], firms, p.sample) :
             LET best == rank_firms(workers[w], firms, sample)
                 r == firm_selection(workers, firms, w, sample)
             IN /\ workers' = r.workers
                /\ firms' = r.firms
                /\ call' = [NoCall EXCEPT
                               !.op = "firm_selection", !.worker = w,
                               !.firm = best.firm, !.wage = best.wage,
                               !.employer = workers[w].employer,
                               !.old_wage = workers[w].wage,
                               !.switches = r.switches]
    /\ UNCHANGED <<p, pc, t, workers_sel, idx>>

NextSearch == Setup \/ RankFirmsCall \/ FirmSelectionCall

SpecSearch == InitSearch /\ [][NextSearch]_vars

----------------------------------------------------------------------------
\* Properties.

\* The run is between steps: Market.setup or a whole Market.step has ended.
BetweenSteps == pc \in {"step", "done"}

\* The rosters a worker is on.
RostersOf(w) == {f \in DOMAIN firms : InSeq(w, firms[f].employees)}

\* C1 (conservation): after Market.setup and after every Market.step the
\* sizes of all firms add up to n_workers and every worker has an employer.
Conservation ==
    BetweenSteps =>
        /\ SumSeq([f \in DOMAIN firms |-> firms[f].size]) = p.n_workers
        /\ \A w \in DOMAIN workers : workers[w].employer # None

\* A step has ended in which a worker joined a firm that had an employee.
ConservationWitness ==
    /\ BetweenSteps
    /\ t >= 1
    /\ \E f \in DOMAIN firms : firms[f].size >= 2

\* C2 (bidirectional roster consistency): after setup and after every step
\* each worker is on at most one roster, the roster of its employer, and
\* every worker on a firm's roster has that firm as employer.
RosterConsistency ==
    BetweenSteps =>
        /\ \A w \in DOMAIN workers :
              /\ Cardinality(RostersOf(w)) <= 1
              /\ \A f \in RostersOf(w) : f = workers[w].employer
        /\ \A f \in DOMAIN firms : \A i \in 1..Len(firms[f].employees) :
              workers[firms[f].employees[i]].employer = f

\* A step has ended after which a worker is on the roster of a firm other
\* than the one setup gave it.
RosterConsistencyWitness ==
    /\ BetweenSteps
    /\ \E w \in DOMAIN workers :
          /\ workers[w].employer # w
          /\ RostersOf(w) = {workers[w].employer}

\* C3 (switch correctness): when firm_selection has made a worker switch,
\* the new employer is not the old one, it offers the worker more than the
\* wage before the switch, the old employer's roster is without the worker
\* and the new employer's roster has it.
SwitchCorrectness ==
    (call.op = "firm_selection" /\ call.switches) =>
        LET w == call.worker
            new == workers[w].employer
        IN /\ new # call.employer
           /\ calc_wage(firms[new], workers[w]) > call.old_wage
           /\ ~InSeq(w, firms[call.employer].employees)
           /\ InSeq(w, firms[new].employees)

\* firm_selection has just made a worker switch, out of a sample of two firms
\* that offer different wages.
SwitchCorrectnessWitness ==
    /\ call.op = "firm_selection"
    /\ call.switches
    /\ p.sample = 2
    /\ \E f \in DOMAIN firms :
          /\ f # call.employer
          /\ calc_wage(firms[f], workers[call.worker]) < call.wage

\* C4 (flags after a better offer): after firm_selection on a worker whose
\* best sampled offer exceeded its wage, search and switch are true and the
\* wage is the offer.
SwitchFlagRecorded ==
    (call.op = "firm_selection" /\ call.wage > call.old_wage) =>
        /\ workers[call.worker].search
        /\ workers[call.worker].switch
        /\ workers[call.worker].wage = call.wage

\* C5 (monotonic education): a worker's educ never goes back to false and its
\* prod never decreases (premium >= 0 in every parameter set).
MonotonicEducation ==
    [][\A w \in DOMAIN workers \cap DOMAIN workers' :
          /\ workers[w].educ => workers'[w].educ
          /\ workers'[w].prod >= workers[w].prod]_vars

\* An educated worker whose prod the premium has raised, in a later step than
\* the one of its education.
MonotonicEducationWitness ==
    /\ p.premium > 0
    /\ call.op = "educated"
    /\ workers[call.worker].educ
    /\ workers[call.worker].prod > p.prod_range[2] * Unit

\* C6 (wage discount correctness): calc_wage(W) of firm F is
\* F.price * W.prod * (1 - F.d_factor) when W.d_class = F.d_class and
\* F.price * W.prod otherwise, and the call changes no worker and no firm.
WageDiscountCorrectness ==
    [][call'.op = "calc_wage" =>
          LET F == firms[call'.firm]
              W == workers[call'.worker]
          IN /\ W.d_class = F.d_class =>
                   call'.wage * Pct = F.price * W.prod * (Pct - F.d_factor)
             /\ W.d_class # F.d_class => call'.wage = F.price * W.prod
             /\ workers' = workers
             /\ firms' = firms]_vars

\* calc_wage has returned a discounted wage for an educated worker.
WageDiscountCorrectnessWitness ==
    /\ call.op = "calc_wage"
    /\ workers[call.worker].d_class = firms[call.firm].d_class
    /\ firms[call.firm].d_factor > 0
    /\ workers[call.worker].educ
    /\ call.wage > 0
    /\ call.wage < workers[call.worker].prod

\* The example run of the specification.
IsExample(params) ==
    /\ params.prod_range = <<10, 10>>
    /\ params.d_range = <<0, 0>>
    /\ params.premium = 0
    /\ params.active = 100
    /\ params.sample = 1
    /\ params.steps = 1

\* C7 as stated: at the end of the example run every firm with exactly one
\* employee has profit -70.
ExampleProfitMinus70 ==
    (IsExample(p) /\ pc = "done") =>
        \A f \in DOMAIN firms : firms[f].size = 1 => firms[f].profit = -70 * Unit

\* C7 (amended): at the end of the example run every firm with exactly one
\* employee has profit 0: revenue 10 * 8 * 1 = 80 and costs 10 * 8 = 80.
ExampleProfitZero ==
    (IsExample(p) /\ pc = "done") =>
        \A f \in DOMAIN firms :
            firms[f].size = 1 =>
                /\ firms[f].revenue = 80 * Unit
                /\ firms[f].costs = 80 * Unit
                /\ firms[f].profit = 0

\* The example run has ended and a firm has exactly one employee.
ExampleProfitWitness ==
    /\ IsExample(p)
    /\ pc = "done"
    /\ \E f \in DOMAIN firms : firms[f].size = 1 /\ firms[f].output = 80 * Unit

\* C8 as stated: at the end of the example run no worker's educ is true.
ExampleNoEducation ==
    (IsExample(p) /\ pc = "done") => \A w \in DOMAIN workers : ~workers[w].educ

\* C8 (amended): in the example run every education decision is a tie
\* (cost = benefit = 0), so the worker's educ is true after it exactly when
\* its tie-break draw was True; the education changes nothing else: at the
\* end of the run every worker's prod and wage are 10.
ExampleEducationByTieBreak ==
    /\ (IsExample(p) /\ call.op = "education_decision") =>
          workers[call.worker].educ = call.coin
    /\ (IsExample(p) /\ pc = "done") =>
          \A w \in DOMAIN workers :
              workers[w].prod = 10 * Unit /\ workers[w].wage = 10 * Unit

\* A worker of the example run has been educated by its tie-break draw.
ExampleEducationWitness ==
    /\ IsExample(p)
    /\ call.op = "education_decision"
    /\ call.coin
    /\ workers[call.worker].educ

\* C9 (initial assignment): right after Market.setup worker i is employed by
\* firm i, the firms up to n_workers have exactly that one employee, the
\* other firms have none, and each wage is the firm's calc_wage.
InitialAssignment ==
    call.op = "setup" =>
        /\ \A i \in DOMAIN workers :
              /\ workers[i].employer = i
              /\ workers[i].wage = calc_wage(firms[i], workers[i])
        /\ \A f \in DOMAIN firms :
              /\ f <= p.n_workers => firms[f].employees = <<f>> /\ firms[f].size = 1
              /\ f > p.n_workers => firms[f].employees = <<>> /\ firms[f].size = 0

\* Market.setup has just run and has paid a discounted wage.
InitialAssignmentWitness ==
    /\ call.op = "setup"
    /\ pc = "step"
    /\ t = 0
    /\ \E i \in DOMAIN workers : workers[i].wage > 0 /\ workers[i].wage < workers[i].prod

\* C10 (idempotence of the roster operations): hire of a worker that is on
\* the roster (a second hire) and separate of a worker that is not on it
\* leave the roster and the size as they were.
RosterIdempotence ==
    /\ (call.op = "hire" /\ InSeq(call.worker, call.employees)) =>
          /\ firms[call.firm].employees = call.employees
          /\ firms[call.firm].size = call.size
    /\ (call.op = "separate" /\ ~InSeq(call.worker, call.employees)) =>
          /\ firms[call.firm].employees = call.employees
          /\ firms[call.firm].size = call.size

\* hire has just been called for a worker that was already on the roster,
\* with another worker on it.
RosterIdempotenceWitness ==
    /\ call.op = "hire"
    /\ InSeq(call.worker, call.employees)
    /\ Len(call.employees) >= 2


\* The number of workers of class c on a roster.
ClassCount(roster, c) ==
    Cardinality({i \in 1..Len(roster) : workers[roster[i]].d_class = c})

\* C11 (size consistency): after any sequence of hire and separate calls a
\* firm's size is the number of its roster entries and is size_0 + size_1,
\* where size_c counts the roster's workers of class c.
SizeConsistency ==
    \A f \in DOMAIN firms :
        /\ firms[f].size = Len(firms[f].employees)
        /\ firms[f].size_0 = ClassCount(firms[f].employees, 0)
        /\ firms[f].size_1 = ClassCount(firms[f].employees, 1)
        /\ firms[f].size = firms[f].size_0 + firms[f].size_1

\* separate has just removed a worker from a roster that had workers of both
\* classes.
SizeConsistencyWitness ==
    /\ call.op = "separate"
    /\ InSeq(call.worker, call.employees)
    /\ ClassCount(call.employees, 0) >= 1
    /\ ClassCount(call.employees, 1) >= 1
    /\ firms[call.firm].size = call.size - 1


\* C12 (termination): a run executes exactly p.steps steps and then ends: it
\* never goes past p.steps, it is over only when p.steps steps are complete,
\* and it does end.
Termination ==
    /\ [](t <= p.steps)
    /\ [](pc = "done" => t = p.steps)
    /\ <>(pc = "done")

\* A run of MaxSteps steps is over.
TerminationWitness ==
    /\ pc = "done"
    /\ p.steps = MaxSteps
    /\ t = MaxSteps
    /\ call.op = "finish"


\* The sum of q over the workers of a roster.
RosterSum(roster, q(_)) == SumSeq([i \in 1..Len(roster) |-> q(roster[i])])

\* The output of the workers now on the roster of firm f.
RosterOutput(f) ==
    RosterSum(firms[f].employees, LAMBDA e : workers[e].prod * workers[e].hrs)

\* The wage bill of the workers now on the roster of firm f.
RosterCosts(f) ==
    RosterSum(firms[f].employees, LAMBDA e : workers[e].wage * workers[e].hrs)

\* C13 (phase ordering): within a step no worker has searched while an
\* education decision is made or still pending; the offer a searching worker
\* gets is the one its current, post-education prod earns; and the output,
\* revenue and costs computed at the end of the step are those of the rosters
\* and wages the step ends with.
PhaseOrdering ==
    /\ (pc = "educ" \/ call.op \in {"education_decision", "educated"})
          => \A w \in DOMAIN workers : workers[w].search = FALSE
    /\ call.op = "firm_selection"
          => call.wage = calc_wage(firms[call.firm], workers[call.worker])
    /\ call.op = "finish"
          => \A f \in DOMAIN firms :
                /\ firms[f].output = RosterOutput(f)
                /\ firms[f].revenue = RosterOutput(f) * firms[f].price
                /\ firms[f].costs = RosterCosts(f)

\* In the first step a worker that has just educated itself, the last of two
\* active workers to decide, then searched and took an offer computed from its
\* raised prod.
PhaseOrderingWitness ==
    /\ call.op = "firm_selection"
    /\ t = 0
    /\ Len(workers_sel) >= 2
    /\ workers[call.worker].educ = TRUE
    /\ workers[call.worker].prod > draws(p).prod[call.worker] * Unit
    /\ call.switches = TRUE
    /\ workers[call.worker].wage = call.wage


\* The cost and benefit a worker compares when the benefit is discounted
\* exactly for the class the firms discount.
TermsOnConfiguredClass(w) ==
    education_terms([w EXCEPT !.d_class =
                         IF w.d_class = firms[1].d_class THEN 1 ELSE 0],
                    firms, p.premium, p.weighted)

\* C14 (discriminated class): the worker about to decide on education
\* compares a benefit multiplied by (1 - average discount) exactly when its
\* class is the configured d_class, the class the firms discount in calc_wage.
DiscountOnConfiguredClass ==
    (pc = "educ" /\ workers[workers_sel[idx]].educ = FALSE) =>
        education_terms(workers[workers_sel[idx]], firms, p.premium, p.weighted)
            = TermsOnConfiguredClass(workers[workers_sel[idx]])


\* C15 (education threshold): a worker whose benefit is not discounted, at a
\* premium > 0, educates when its prod is above the reference productivity,
\* does not when below, and educates exactly on the coin when equal; a worker
\* whose benefit is discounted by a positive average discount educates at no
\* prod below the reference.
EducationThreshold ==
    call.op = "education_decision" =>
        LET w == workers[call.worker]
            prod2 == 2 * draws(p).prod[call.worker]
            d_avg == calc_avg_d(firms, p.weighted)
        IN /\ (w.d_class # 1 /\ p.premium > 0) =>
                 /\ prod2 > w.avg_prod2 => w.educ = TRUE
                 /\ prod2 < w.avg_prod2 => w.educ = FALSE
                 /\ prod2 = w.avg_prod2 => w.educ = call.coin
           /\ (w.d_class = 1 /\ ~d_avg.nan /\ d_avg.num > 0 /\ w.educ = TRUE)
                 => prod2 >= w.avg_prod2


\* C16 (education at most once): the step passes an educated worker over, so
\* at any time a worker's prod is the prod drawn at setup if it is not
\* educated and that prod * (1 + premium) if it is.
EducationOnce ==
    \A w \in DOMAIN workers :
        workers[w].prod =
            IF workers[w].educ
            THEN (draws(p).prod[w] * Unit * (Pct + p.premium)) \div Pct
            ELSE draws(p).prod[w] * Unit

\* The step has just passed over a worker, active again, that educated itself
\* in an earlier step; another worker is still at the prod of its setup.
EducationOnceWitness ==
    /\ call.op = "educated"
    /\ t >= 1
    /\ p.premium > 0
    /\ workers[call.worker].prod
          = (draws(p).prod[call.worker] * Unit * (Pct + p.premium)) \div Pct
    /\ \E w \in DOMAIN workers : workers[w].educ = FALSE


\* C17 (degenerate state): calc_avg_d called while no firm has size > 0
\* returns a number (or a defined signal), weighted or not, never a
\* non-numeric result.
DegenerateAverageDefined ==
    (call.op = "calc_avg_d" /\ \A f \in DOMAIN firms : firms[f].size = 0)
        => call.avg.nan = FALSE


\* C18 (configuration errors surface at setup): no run that has completed
\* Market.setup fails later, inside a step, because of a value of the
\* configuration.
ConfigErrorsAtSetup ==
    pc = "error" => firms = <<>>


\* C19 (end-of-step employer size): at the end of every step every worker's
\* employer_size, active in the step or not, is the size its employer has
\* after the switches of the step.
EndOfStepEmployerSize ==
    (BetweenSteps /\ t >= 1) =>
        \A w \in DOMAIN workers :
            workers[w].employer_size = firms[workers[w].employer].size

\* A step has ended in which a worker that was not active got a colleague:
\* its employer's size, and its employer_size, are now 2.
EndOfStepEmployerSizeWitness ==
    /\ call.op = "finish"
    /\ \E w \in DOMAIN workers :
          /\ ~InSeq(w, workers_sel)
          /\ workers[w].switched = FALSE
          /\ firms[workers[w].employer].size = 2
          /\ workers[w].employer_size = 2


\* C20 (end-of-step firm accounting): at the end of every step, for every
\* firm, output is the sum of prod * hrs over its roster and is
\* output_0 + output_1, revenue is output * price, costs is the sum of
\* wage * hrs over its roster and profit is revenue - costs; for an empty
\* firm all of them are 0.
EndOfStepAccounting ==
    (BetweenSteps /\ t >= 1) =>
        \A f \in DOMAIN firms :
            /\ firms[f].output = RosterOutput(f)
            /\ firms[f].output = firms[f].output_0 + firms[f].output_1
            /\ firms[f].revenue = firms[f].output * firms[f].price
            /\ firms[f].costs = RosterCosts(f)
            /\ firms[f].profit = firms[f].revenue - firms[f].costs
            /\ firms[f].employees = <<>> =>
                  /\ firms[f].output = 0
                  /\ firms[f].output_0 = 0
                  /\ firms[f].output_1 = 0
                  /\ firms[f].revenue = 0
                  /\ firms[f].costs = 0
                  /\ firms[f].profit = 0

\* A step has ended with a firm that employs a worker of each class and makes
\* a profit on the discounted one, and with a firm that employs nobody.
EndOfStepAccountingWitness ==
    /\ call.op = "finish"
    /\ \E f \in DOMAIN firms :
          /\ firms[f].size_0 >= 1
          /\ firms[f].size_1 >= 1
          /\ firms[f].output_0 > 0
          /\ firms[f].output_1 > 0
          /\ firms[f].profit > 0
    /\ \E f \in DOMAIN firms : firms[f].employees = <<>>


\* The step is past its selection of the active workers.
InStep == pc \in {"educ", "search", "finish"}

\* C21 (active subset): the workers selected in a step are
\* ceil(n_workers * active) distinct workers; during the searches exactly
\* the selected workers already served have searched, each once; and at the
\* end of the step search is true for exactly the selected workers.
ActiveSubset ==
    /\ InStep =>
          /\ Len(workers_sel) = ceil_share(p.n_workers, p.active)
          /\ \A i \in 1..Len(workers_sel) : workers_sel[i] \in DOMAIN workers
          /\ \A i, j \in 1..Len(workers_sel) :
                i # j => workers_sel[i] # workers_sel[j]
    /\ pc = "search" =>
          \A w \in DOMAIN workers :
             workers[w].search
                = (\E i \in 1..(idx - 1) : workers_sel[i] = w)
    /\ (pc = "finish" \/ (BetweenSteps /\ t >= 1)) =>
          \A w \in DOMAIN workers : workers[w].search = InSeq(w, workers_sel)

\* A step of a population with an active share of one half has ended: the
\* one selected worker has searched, the other has not.
ActiveSubsetWitness ==
    /\ call.op = "finish"
    /\ Len(workers_sel) < p.n_workers
    /\ \E w \in DOMAIN workers : InSeq(w, workers_sel) /\ workers[w].search
    /\ \E w \in DOMAIN workers : ~InSeq(w, workers_sel) /\ ~workers[w].search


\* The offer of the i-th firm of the sample of the last call to its worker.
Offer(i) == calc_wage(firms[call.sample[i]], workers[call.worker])

\* C22 (offer ranking): select_firms(n) draws n pairwise distinct firms, none
\* of them the worker's employer; rank_firms returns the firm of the sample
\* whose calc_wage for the worker is the highest, the first such firm in the
\* order of the sample, and that wage.
OfferRanking ==
    call.op = "rank_firms" =>
        /\ Len(call.sample) = call.n
        /\ \A i \in 1..call.n :
              /\ call.sample[i] \in DOMAIN firms
              /\ call.sample[i] # workers[call.worker].employer
        /\ \A i, j \in 1..call.n : i # j => call.sample[i] # call.sample[j]
        /\ \E i \in 1..call.n :
              /\ call.sample[i] = call.firm
              /\ call.wage = Offer(i)
              /\ \A j \in 1..call.n : Offer(j) <= Offer(i)
              /\ \A j \in 1..(i - 1) : Offer(j) < Offer(i)

\* rank_firms has ranked a sample of two firms that make the same offer to a
\* worker that has changed its employer before, and returned the first.
OfferRankingWitness ==
    /\ call.op = "rank_firms"
    /\ call.n = 2
    /\ workers[call.worker].employer # call.worker
    /\ Offer(1) = Offer(2)
    /\ call.firm = call.sample[1]


\* C23 (no action on ties or inferior offers): a firm_selection whose best
\* sampled offer is less than or equal to the worker's wage changes no firm
\* (no roster, no size) and nothing of any worker but the search flag of the
\* searching one, which it sets.
NoActionOnTies ==
    [][(call'.op = "firm_selection" /\ call'.wage <= call'.old_wage) =>
          /\ firms' = firms
          /\ workers' = [workers EXCEPT ![call'.worker].search = TRUE]]_vars

\* firm_selection has run on a worker whose best sampled offer equals its
\* wage: the worker has searched and is still on the roster of its employer,
\* not on that of the firm that made the offer.
NoActionOnTiesWitness ==
    /\ call.op = "firm_selection"
    /\ call.wage = call.old_wage
    /\ call.wage > 0
    /\ call.switches = FALSE
    /\ workers[call.worker].search = TRUE
    /\ workers[call.worker].employer = call.employer
    /\ InSeq(call.worker, firms[call.employer].employees)
    /\ ~InSeq(call.worker, firms[call.firm].employees)


\* The sum of the function q over a finite set.
RECURSIVE SumOver(_, _)
SumOver(S, q) ==
    IF S = {} THEN 0
    ELSE LET x == CHOOSE y \in S : TRUE IN q[x] + SumOver(S \ {x}, q)

\* The firms with size > 0.
ActiveFirms == {f \in DOMAIN firms : firms[f].size > 0}

\* C24 (average discount): calc_avg_d changes no worker and no firm; over
\* the firms with size > 0, if there are any, it returns the arithmetic mean
\* of their d_factor when unweighted and sum(d_factor * size) / sum(size)
\* when weighted (avg is the fraction num / (Pct * den), d_factor counts
\* 1 / Pct).
AverageDiscount ==
    [][call'.op = "calc_avg_d" =>
          /\ workers' = workers
          /\ firms' = firms
          /\ ActiveFirms # {} =>
                /\ call'.avg.nan = FALSE
                /\ call'.avg.den > 0
                /\ IF call'.weighted
                   THEN call'.avg.num * SumOver(ActiveFirms, [f \in DOMAIN firms |-> firms[f].size])
                           = call'.avg.den * SumOver(ActiveFirms,
                                 [f \in DOMAIN firms |-> firms[f].d_factor * firms[f].size])
                   ELSE call'.avg.num * Cardinality(ActiveFirms)
                           = call'.avg.den * SumOver(ActiveFirms,
                                 [f \in DOMAIN firms |-> firms[f].d_factor])]_vars

\* The weighted average has been computed over a firm of size 2 and a firm of
\* size 1 with different d_factors, where it is not the unweighted mean, while
\* a firm of size 0 has a positive d_factor.
AverageDiscountWitness ==
    /\ call.op = "calc_avg_d"
    /\ call.weighted = TRUE
    /\ ActiveFirms = {1, 2}
    /\ firms[1].size # firms[2].size
    /\ firms[1].d_factor # firms[2].d_factor
    /\ \E f \in DOMAIN firms : firms[f].size = 0 /\ firms[f].d_factor > 0
    /\ call.avg.num * 2 # call.avg.den * (firms[1].d_factor + firms[2].d_factor)


\* C25 (wage tracks the employer's offer): after setup and after every step
\* every worker has an employer, and its wage is that employer's calc_wage
\* for the worker at its current prod.
WageTracksOffer ==
    BetweenSteps =>
        \A w \in DOMAIN workers :
            /\ workers[w].employer # None
            /\ workers[w].wage = calc_wage(firms[workers[w].employer], workers[w])

\* A step has ended with a worker that has educated at a firm that discounts
\* it, and with a worker that has switched in this step to a firm that
\* discounts it.
WageTracksOfferWitness ==
    /\ call.op = "finish"
    /\ \E w \in DOMAIN workers :
          /\ workers[w].educ = TRUE
          /\ workers[w].wage < workers[w].prod
    /\ \E w \in DOMAIN workers :
          /\ workers[w].switched = TRUE
          /\ workers[w].wage < workers[w].prod


\* C26 (recorded employer size at time zero): right after Market.setup,
\* before the first step, every worker's employer and employer_id name the
\* firm that has it on its roster, and its employer_size is the size of
\* that firm.
SetupEmployerSize ==
    call.op = "setup" =>
        \A w \in DOMAIN workers :
            /\ workers[w].employer # None
            /\ workers[w].employer_id = workers[w].employer
            /\ InSeq(w, firms[workers[w].employer].employees)
            /\ workers[w].employer_size = firms[workers[w].employer].size


\* C27 (inactive workers are untouched): no part of a step changes the
\* employer, wage, prod or educ of a worker that is not in the step's
\* selection, so these are at the end of the step what they were at its
\* start.  (The selection of a step is the one its first part draws.)
InactiveUntouched ==
    [][pc # "setup" =>
          LET sel == IF pc = "step" THEN workers_sel' ELSE workers_sel
          IN \A w \in DOMAIN workers :
                ~InSeq(w, sel) =>
                    /\ workers'[w].employer = workers[w].employer
                    /\ workers'[w].wage = workers[w].wage
                    /\ workers'[w].prod = workers[w].prod
                    /\ workers'[w].educ = workers[w].educ]_vars

\* A step has ended in which an active worker has educated and switched to
\* the firm of a worker that was not active and is not educated.
InactiveUntouchedWitness ==
    /\ call.op = "finish"
    /\ \E w, a \in DOMAIN workers :
          /\ ~InSeq(w, workers_sel)
          /\ InSeq(a, workers_sel)
          /\ workers[w].educ = FALSE
          /\ workers[a].educ = TRUE
          /\ workers[a].switched = TRUE
          /\ workers[a].employer = workers[w].employer


\* C28 (wages never fall): with premium >= 0 and every d_factor in [0, 1],
\* nothing after setup lowers the wage of a worker, so its wage at the end
\* of a step is at least its wage at the end of the previous step, and at
\* least its wage after setup.
WagesNeverFall ==
    [][(/\ pc # "setup"
        /\ p.premium >= 0
        /\ \A f \in DOMAIN firms : firms[f].d_factor \in 0..Pct) =>
          \A w \in DOMAIN workers : workers'[w].wage >= workers[w].wage]_vars

\* A step has ended with a worker that has educated and has switched in a
\* step, and earns more than its productivity at setup would pay without
\* discount, while another worker is paid with a discount.
WagesNeverFallWitness ==
    /\ call.op = "finish"
    /\ p.premium > 0
    /\ \E w, v \in DOMAIN workers :
          /\ workers[w].educ = TRUE
          /\ workers[w].switched = TRUE
          /\ workers[w].wage > draws(p).prod[w] * Unit
          /\ workers[v].wage < workers[v].prod

====
